---- MODULE Spec2Model ----
(***************************************************************************)
(* slackpkg execution module (src/slackpkg.py) as a state machine.         *)
(*                                                                         *)
(* Text is modelled as sequences of one-character strings, so that the     *)
(* string operations of the module (rsplit, format, join, the regular      *)
(* expression of list_upgrades) are computed and not assumed.              *)
(* The external collaborators (cmd.run_all, the package tools, the         *)
(* directory of installed-package markers) are the environment: every exit *)
(* code and every effect on the directory is chosen by \E in the actions.  *)
(***************************************************************************)
EXTENDS Integers, Sequences, FiniteSets

VARIABLES
    fs,         \* marker filenames present under /var/log/packages
    context,    \* __context__: NoContext, or the value under "pkg.list_pkgs"
    pkglist,    \* the packages listed in /var/lib/slackpkg/pkglist, a line each
    pc,         \* "idle": no request in progress; "done": a response is ready
    call,       \* the request being answered (operation and arguments)
    trace,      \* what the request executed, in order (commands, directory scans)
    outcome,    \* the response: a return value or a raised exception
    fsBefore    \* the directory as it was when the request arrived

vars == <<fs, context, pkglist, pc, call, trace, outcome, fsBefore>>

----------------------------------------------------------------------------
(* Bounds *)

\* longest list of targets / package names / output lines given to one request
MaxParams == 2
\* longest package name drawn for the parsing specification
MaxNameLen == 2

----------------------------------------------------------------------------
(* Text helpers: Python str operations on sequences of characters *)

Range(s) == {s[i] : i \in DOMAIN s}

\* characters in increasing code-point order (Python compares str by code point)
CodePoints == <<" ", ",", "-", ".", "/", "1", "2", "3", "a", "b", "c", "t", "x", "z">>

CharCode(c) == CHOOSE i \in DOMAIN CodePoints : CodePoints[i] = c

\* s < t from position i on, the characters before i being equal
RECURSIVE StrLessFrom(_, _, _)
StrLessFrom(s, t, i) ==
    IF i > Len(s) THEN i <= Len(t)
    ELSE IF i > Len(t) THEN FALSE
    ELSE IF s[i] = t[i] THEN StrLessFrom(s, t, i + 1)
    ELSE CharCode(s[i]) < CharCode(t[i])

StrLess(s, t) == StrLessFrom(s, t, 1)

\* sorted(set(...)) over strings
RECURSIVE sorted(_)
sorted(S) ==
    IF S = {} THEN <<>>
    ELSE LET m == CHOOSE x \in S : \A y \in S \ {x} : StrLess(x, y)
         IN  <<m>> \o sorted(S \ {m})

\* sep.join(list)
RECURSIVE join(_, _)
join(sep, list) ==
    IF list = <<>> THEN <<>>
    ELSE IF Len(list) = 1 THEN list[1]
    ELSE list[1] \o sep \o join(sep, Tail(list))

\* index of the last occurrence of character sep in s[1..i], 0 when there is none
RECURSIVE rfind(_, _, _)
rfind(s, sep, i) ==
    IF i = 0 THEN 0
    ELSE IF s[i] = sep THEN i
    ELSE rfind(s, sep, i - 1)

\* index of the first occurrence of character sep in s[i..], 0 when there is none
RECURSIVE find(_, _, _)
find(s, sep, i) ==
    IF i > Len(s) THEN 0
    ELSE IF s[i] = sep THEN i
    ELSE find(s, sep, i + 1)

\* s.rsplit(sep, maxsplit): at most maxsplit splits, taken from the right
RECURSIVE rsplit(_, _, _)
rsplit(s, sep, maxsplit) ==
    LET i == rfind(s, sep, Len(s))
    IN  IF maxsplit = 0 \/ i = 0 THEN <<s>>
        ELSE Append(rsplit(SubSeq(s, 1, i - 1), sep, maxsplit - 1),
                    SubSeq(s, i + 1, Len(s)))

\* s.split(sep, maxsplit): at most maxsplit splits, taken from the left
RECURSIVE split(_, _, _)
split(s, sep, maxsplit) ==
    LET i == find(s, sep, 1)
    IN  IF maxsplit = 0 \/ i = 0 THEN <<s>>
        ELSE <<SubSeq(s, 1, i - 1)>> \o split(SubSeq(s, i + 1, Len(s)), sep, maxsplit - 1)

----------------------------------------------------------------------------
(* The packages of the model *)

Dash == <<"-">>

\* a marker filename: name-version-arch-build
Marker(c) == c.name \o Dash \o c.version \o Dash \o c.arch \o Dash \o c.build

\* packages of the repository and of the machine in the operational
\* specification: a in versions 1 and 2, a-b in version 2
Names == {<<"a">>, <<"a", "-", "b">>}
Comps ==
    {c \in [name : Names, version : {<<"1">>, <<"2">>}, arch : {<<"x">>}, build : {<<"1">>}] :
        c.name = <<"a">> \/ c.version = <<"2">>}
MarkerUniverse == {Marker(c) : c \in Comps}

\* every string over {"a", "-"} of length 1..n
RECURSIVE NamesUpTo(_)
NamesUpTo(n) ==
    IF n = 0 THEN {}
    ELSE LET shorter == NamesUpTo(n - 1)
         IN  {<<"a">>, <<"-">>} \cup shorter
             \cup {Append(s, ch) : s \in shorter, ch \in {"a", "-"}}

\* packages of the parsing specification: names may hold any number of dashes
ParseComps ==
    [name : NamesUpTo(MaxNameLen), version : {<<"1">>, <<"1", ".", "2">>},
     arch : {<<"x">>}, build : {<<"1">>}]

AllComps == Comps \cup ParseComps

\* the packages whose marker is in directory dir
CompsOf(dir) == {c \in AllComps : Marker(c) \in dir}

\* the markers in dir of the package called n
MarkersNamed(dir, n) == {m \in dir : \E c \in Comps : Marker(c) = m /\ c.name = n}

\* sequences over S of length at most k
RECURSIVE SeqsUpTo(_, _)
SeqsUpTo(S, k) ==
    IF k = 0 THEN {<<>>}
    ELSE LET shorter == SeqsUpTo(S, k - 1)
         IN  shorter \cup {Append(q, x) : q \in shorter, x \in S}

NoDuplicates(q) == \A i, j \in DOMAIN q : i # j => q[i] # q[j]

Ext == <<".", "t", "x", "z">>
\* a package file given to installpkg/upgradepkg: /name-version-arch-build.txz
FilePath(m) == <<"/">> \o m \o Ext
FileUniverse == {FilePath(m) : m \in MarkerUniverse}
\* the marker a package file installs
MarkerOfFile(f) == CHOOSE m \in MarkerUniverse : FilePath(m) = f

\* a line of /var/lib/slackpkg/pkglist:
\* repository name version arch build fullname path extension
PkglistLine(c) ==
    join(<<" ">>, <<<<"c">>, c.name, c.version, c.arch, c.build, Marker(c),
                    <<".", "/", "c">>, <<"t", "x", "z">>>>) \o <<"\n">>

\* the lines of the file, as `for line in pkglist` reads them
readlines(listed) == sorted({PkglistLine(c) : c \in listed})

\* the repository of the operational specification offers version 2 of each package
RepoComps == {c \in Comps : c.version = <<"2">>}
RepoMarker(n) == CHOOSE m \in MarkerUniverse : \E c \in RepoComps : c.name = n /\ Marker(c) = m

----------------------------------------------------------------------------
(* src/slackpkg.py: parsing and listing *)

NoContext == [present |-> FALSE, pkgs |-> <<>>]

\* _pkginfo with str.split in place of str.rsplit
pkginfo_split(package) ==
    LET parts == split(package, "-", 3)
    IN  IF Len(parts) # 4
        THEN [raised |-> "ValueError", name |-> <<>>, version |-> <<>>,
              arch |-> <<>>, build |-> <<>>]
        ELSE [raised |-> "", name |-> parts[1], version |-> parts[2],
              arch |-> parts[3], build |-> parts[4]]

\* _pkginfo: the tuple unpacking raises ValueError unless rsplit yields 4 parts
_pkginfo(package) ==
    LET parts == rsplit(package, "-", 3)
    IN  IF Len(parts) # 4
        THEN [raised |-> "ValueError", name |-> <<>>, version |-> <<>>,
              arch |-> <<>>, build |-> <<>>]
        ELSE [raised |-> "", name |-> parts[1], version |-> parts[2],
              arch |-> parts[3], build |-> parts[4]]

\* root + pkgdb with the default root "/"
prefix == <<"/", "v", "a", "r", "/", "l", "o", "g", "/", "p", "a", "c", "k", "a", "g", "e", "s">>

\* the elements of S in some order
RECURSIVE listing(_)
listing(S) ==
    IF S = {} THEN <<>>
    ELSE LET x == CHOOSE y \in S : TRUE IN <<x>> \o listing(S \ {x})

\* glob.glob(prefix + "/*"): the paths of the entries of the directory.  glob's
\* order is unspecified; list_pkgs sorts what it collects, so one order is taken.
glob(dir) == listing({prefix \o <<"/">> \o m : m \in dir})

\* _pkglist: the parsed basename of every path
_pkglist(dir) ==
    LET lines == glob(dir)
    IN  [i \in DOMAIN lines |-> _pkginfo(rsplit(lines[i], "/", 1)[2])]

\* "{}-{}".format(version, build); the same expression is used by
\* latest_version and list_upgrades
pkg_version(version, build) == version \o Dash \o build

\* pkg_resource.add_pkg: pkgs.setdefault(name, []).append(version)
add_pkg(pkgs, name, version) ==
    IF name \in DOMAIN pkgs
    THEN [pkgs EXCEPT ![name] = Append(@, version)]
    ELSE [n \in DOMAIN pkgs \cup {name} |-> IF n = name THEN <<version>> ELSE pkgs[n]]

\* pkg_resource.sort_pkglist: pkgs[key] = sorted(set(pkgs[key]))
sort_pkglist(pkgs) == [n \in DOMAIN pkgs |-> sorted(Range(pkgs[n]))]

\* pkg_resource.stringify: pkgs[key] = ",".join(pkgs[key])
stringify(pkgs) == [n \in DOMAIN pkgs |-> join(<<",">>, pkgs[n])]

\* the loop of list_pkgs over _pkglist, from entry i on
RECURSIVE collect(_, _, _)
collect(packages, i, ret) ==
    IF i > Len(packages) THEN ret
    ELSE collect(packages, i + 1,
                 add_pkg(ret, packages[i].name,
                         pkg_version(packages[i].version, packages[i].build)))

\* _list_pkgs_from_context: the non-list branch looks up "pkg_resource.stringfy",
\* a function the host does not provide, and raises KeyError
_list_pkgs_from_context(versions_as_list, ctx) ==
    IF versions_as_list
    THEN [raised |-> "", ret |-> ctx.pkgs]
    ELSE [raised |-> "KeyError", ret |-> <<>>]

\* a list_pkgs that remembers its result in __context__
store_in_context(ctx, ret) == [present |-> TRUE, pkgs |-> ret]

\* __context__ after list_pkgs has computed ret: list_pkgs writes nothing to it
context_after(ctx, ret) == ctx

\* list_pkgs(versions_as_list) with root, removed and purge_desired left at their
\* defaults; the result, the exception raised and __context__ afterwards
list_pkgs(versions_as_list, ctx, dir) ==
    IF ctx.present
    THEN LET r == _list_pkgs_from_context(versions_as_list, ctx)
         IN  [raised |-> r.raised, ret |-> r.ret, ctx |-> ctx]
    ELSE LET packages == _pkglist(dir)
             bad      == {i \in DOMAIN packages : packages[i].raised # ""}
             listed   == sort_pkglist(collect(packages, 1, <<>>))
             ret      == IF versions_as_list THEN listed ELSE stringify(listed)
         IN  IF bad # {}
             THEN [raised |-> "ValueError", ret |-> <<>>, ctx |-> ctx]
             ELSE [raised |-> "", ret |-> ret, ctx |-> context_after(ctx, ret)]

----------------------------------------------------------------------------
(* Requests, responses and what a request executes *)

\* one entry of the trace: a command run through cmd.run_all / cmd.run_stdout
\* with its exit code, or a scan of the marker directory by list_pkgs
Event(cmd, arg, rc) == [cmd |-> cmd, arg |-> arg, rc |-> rc]
Scan == Event("list_pkgs", <<>>, 0)

\* out["stderr"] of a command
Stderr(e) == [stderr_of |-> e.cmd, arg |-> e.arg]

\* Python values handed to the caller, as a pair of type and value
PyNone == <<"None", <<>>>>
PyBool(b) == <<"bool", b>>
PyStr(s) == <<"str", s>>
PyTuple(t) == <<"tuple", t>>
\* dict of name -> str, name -> list of str, name -> {"old": str, "new": str}
DictOfStr(d) == <<"dict of str", d>>
DictOfList(d) == <<"dict of list", d>>
DictOfChanges(d) == <<"dict of old/new", d>>

\* `if v:` on one of these values
Truthy(v) == v[1] = "bool" /\ v[2]

\* a response: the value returned, or the exception raised with the changes
\* and errors of its info (None and [] for an exception without info)
Return(v) == [kind |-> "return", value |-> v, changes |-> PyNone, errors |-> <<>>]
Raise(kind, changes, errors) ==
    [kind |-> kind, value |-> PyNone, changes |-> changes, errors |-> errors]
NoOutcome == [kind |-> "none", value |-> PyNone, changes |-> PyNone, errors |-> <<>>]

\* what an operation leaves behind
Result(dir, ctx, tr, out) == [fs |-> dir, ctx |-> ctx, trace |-> tr, outcome |-> out]

NoCall ==
    [op |-> "none", refresh |-> FALSE, reinstall |-> FALSE, targeted |-> FALSE,
     pkg_type |-> "", params |-> <<>>, versions_as_list |-> FALSE]

----------------------------------------------------------------------------
(* refresh_db *)

\* refresh_db that runs `slackpkg update` whatever check-updates answered
refresh_db_always_update(ro) ==
    LET check  == Event("check-updates", <<>>, ro[1])
        update == Event("update", <<>>, ro[2])
        ret    == IF ro[1] = 100 THEN PyBool(TRUE)
                  ELSE IF ro[1] = 1 THEN PyBool(FALSE) ELSE PyNone
        errors == (IF ro[1] = 1 THEN <<Stderr(check)>> ELSE <<>>)
                  \o (IF ro[2] = 1 THEN <<Stderr(update)>> ELSE <<>>)
    IN  [trace |-> <<check, update>>, ret |-> ret, errors |-> errors,
         raised |-> IF errors # <<>> THEN "CommandExecutionError" ELSE ""]

\* refresh_db: ro[1] is the exit code of check-updates, ro[2] that of update
refresh_db(ro) ==
    LET check  == Event("check-updates", <<>>, ro[1])
        update == Event("update", <<>>, ro[2])
        ret    == IF ro[1] = 100 THEN PyBool(TRUE)
                  ELSE IF ro[1] = 1 THEN PyBool(FALSE) ELSE PyNone
        errors1 == IF ro[1] = 1 THEN <<Stderr(check)>> ELSE <<>>
        \* `if ret:` is taken for True only (False and None are falsy)
        ran    == Truthy(ret)
        errors == IF ran /\ ro[2] = 1 THEN Append(errors1, Stderr(update)) ELSE errors1
    IN  [trace |-> IF ran THEN <<check, update>> ELSE <<check>>,
         ret |-> ret, errors |-> errors,
         raised |-> IF errors # <<>> THEN "CommandExecutionError" ELSE ""]

\* `if salt.utils.data.is_true(refresh): refresh_db()` in the callers
maybe_refresh(refresh, ro) ==
    IF refresh THEN refresh_db(ro)
    ELSE [trace |-> <<>>, ret |-> PyNone, errors |-> <<>>, raised |-> ""]

----------------------------------------------------------------------------
(* The package tools: what a command does to the marker directory when it   *)
(* takes effect.  Whether it takes effect and its exit code are chosen by   *)
(* the environment, independently of each other.                            *)

\* the names of a set of packages as the list given to a command
SetToSeqNames(S) == sorted(S)

NameOfMarker(m) == (CHOOSE c \in Comps : Marker(c) = m).name

installpkg_effect(dir, file) == dir \cup {MarkerOfFile(file)}

upgradepkg_effect(dir, file) ==
    (dir \ MarkersNamed(dir, NameOfMarker(MarkerOfFile(file)))) \cup {MarkerOfFile(file)}

removepkg_effect(dir, name) == dir \ MarkersNamed(dir, name)

slackpkg_install_effect(dir, names) ==
    dir \cup {RepoMarker(n) : n \in Range(names) \cap Names}

slackpkg_upgrade_effect(dir, names) ==
    LET installed == {n \in Range(names) \cap Names : MarkersNamed(dir, n) # {}}
    IN  (dir \ UNION {MarkersNamed(dir, n) : n \in installed})
        \cup {RepoMarker(n) : n \in installed}

\* the answers of the environment to the commands of one request
\* a command that exits with 0 has taken effect; one that fails may have or not
ToolResponses == {r \in [rc : {0, 1}, applied : BOOLEAN] : r.rc = 0 => r.applied}
\* slackpkg exits with 1 on an error and with 20 when it found no package
SlackpkgResponses ==
    {r \in [rc : {0, 1, 20}, applied : BOOLEAN] :
        /\ r.rc = 0 => r.applied
        /\ r.rc = 20 => ~r.applied}
RefreshOracles == {<<0, 0>>, <<1, 0>>, <<100, 0>>, <<100, 1>>}

----------------------------------------------------------------------------
(* salt.utils.data.compare_dicts and the common tail of install/upgrade/remove *)

compare_dicts(old, new) ==
    LET changed == {k \in DOMAIN old \cup DOMAIN new :
                        \/ k \notin DOMAIN old
                        \/ k \notin DOMAIN new
                        \/ new[k] # old[k]}
    IN  [k \in changed |->
            IF k \notin DOMAIN old THEN [old |-> <<>>, new |-> new[k]]
            ELSE IF k \notin DOMAIN new THEN [old |-> old[k], new |-> <<>>]
            ELSE [old |-> old[k], new |-> new[k]]]

\* os.path.basename
basename(path) == LET parts == rsplit(path, "/", 1) IN parts[Len(parts)]

\* the tail with the second listing forgotten: the changes are computed
\* against the listing taken before the commands
changes_or_raise_stale(old, st) ==
    LET ret == compare_dicts(old.ret, old.ret)
    IN  Result(st.fs, old.ctx, Append(st.trace, Scan),
               IF st.errors # <<>>
               THEN Raise("CommandExecutionError", DictOfChanges(ret), st.errors)
               ELSE Return(DictOfChanges(ret)))

\* new = list_pkgs(); ret = compare_dicts(old, new);
\* raise CommandExecutionError(info={changes, errors}) if errors else return ret
changes_or_raise(old, st) ==
    LET new == list_pkgs(FALSE, old.ctx, st.fs)
        tr  == Append(st.trace, Scan)
    IN  IF new.raised # ""
        THEN Result(st.fs, new.ctx, tr, Raise(new.raised, PyNone, <<>>))
        ELSE LET ret == compare_dicts(old.ret, new.ret)
             IN  Result(st.fs, new.ctx, tr,
                        IF st.errors # <<>>
                        THEN Raise("CommandExecutionError", DictOfChanges(ret), st.errors)
                        ELSE Return(DictOfChanges(ret)))

\* one command of a loop: its event, its effect when it takes effect, and an
\* entry in errors when failed says so
run(st, ev, after, resp, failed) ==
    [fs     |-> IF resp.applied THEN after ELSE st.fs,
     trace  |-> Append(st.trace, ev),
     errors |-> IF failed THEN Append(st.errors, Stderr(ev)) ELSE st.errors,
     k      |-> st.k + 1]

----------------------------------------------------------------------------
(* install *)

Start(dir, tr) == [fs |-> dir, trace |-> tr, errors |-> <<>>, k |-> 0]

Unsupported(pkg_type) == [stderr_of |-> "unsupported package type", arg |-> <<>>]

\* the loop over package files, from target i on; o[k] answers the k-th command
RECURSIVE install_files(_, _, _, _, _, _)
install_files(params, i, old, reinstall, st, o) ==
    IF i > Len(params) THEN st
    ELSE LET package == params[i]
             pkgname == rsplit(basename(package), "-", 3)[1]
         IN  IF ~reinstall /\ pkgname \in DOMAIN old
             THEN install_files(params, i + 1, old, reinstall, st, o)
             ELSE LET resp == o[st.k + 1]
                      ev   == Event("installpkg", <<package>>, resp.rc)
                  IN  install_files(params, i + 1, old, reinstall,
                                    run(st, ev, installpkg_effect(st.fs, package),
                                        resp, 0 # resp.rc),
                                    o)

\* packages from the repository: one `slackpkg install` for those not installed,
\* one `slackpkg reinstall` for the installed ones when reinstall is set
install_repository(params, old, reinstall, st, o) ==
    LET to_install   == SelectSeq(params, LAMBDA p : p \notin DOMAIN old)
        to_reinstall == IF reinstall
                        THEN SelectSeq(params, LAMBDA p : p \in DOMAIN old)
                        ELSE <<>>
        ev1 == Event("install", to_install, o[1].rc)
        st1 == IF to_install # <<>>
               THEN run(st, ev1, slackpkg_install_effect(st.fs, to_install),
                        o[1], 1 = o[1].rc)
               ELSE st
        ev2 == Event("reinstall", to_reinstall, o[2].rc)
    IN  IF to_reinstall # <<>>
        THEN run(st1, ev2, st1.fs, o[2], 1 = o[2].rc)
        ELSE st1

\* install, after parse_targets has produced a.params and a.pkg_type
install(a, ctx, dir, ro, o) ==
    IF Len(a.params) = 0 THEN Result(dir, ctx, <<>>, Return(DictOfChanges(<<>>)))
    ELSE
    LET r == maybe_refresh(a.refresh, ro)
    IN  IF r.raised # ""
        THEN Result(dir, ctx, r.trace, Raise(r.raised, r.ret, r.errors))
        ELSE
        LET old == list_pkgs(FALSE, ctx, dir)
            st0 == Start(dir, Append(r.trace, Scan))
        IN  IF old.raised # ""
            THEN Result(dir, old.ctx, st0.trace, Raise(old.raised, PyNone, <<>>))
            ELSE changes_or_raise(old,
                    IF a.pkg_type = "file"
                    THEN install_files(a.params, 1, old.ret, a.reinstall, st0, o)
                    ELSE IF a.pkg_type = "repository"
                    THEN install_repository(a.params, old.ret, a.reinstall, st0, o)
                    ELSE [st0 EXCEPT !.errors = <<Unsupported(a.pkg_type)>>])

----------------------------------------------------------------------------
(* upgrade *)

RECURSIVE upgrade_files(_, _, _, _, _)
upgrade_files(params, i, old, st, o) ==
    IF i > Len(params) THEN st
    ELSE LET package == params[i]
             pkgname == rsplit(basename(package), "-", 3)[1]
         IN  IF pkgname \notin DOMAIN old
             THEN upgrade_files(params, i + 1, old, st, o)
             ELSE LET resp == o[st.k + 1]
                      ev   == Event("upgradepkg", <<package>>, resp.rc)
                  IN  upgrade_files(params, i + 1, old,
                                    run(st, ev, upgradepkg_effect(st.fs, package),
                                        resp, 0 # resp.rc),
                                    o)

\* the repository branch.  The exit code is tested inside the upgrade-all branch
\* and once more after the if/else; with nothing to upgrade no command has run
\* and that second test reads `out` before assignment.
upgrade_repository(a, old, st, o) ==
    IF ~a.targeted
    THEN LET ev  == Event("upgrade-all", <<>>, o[1].rc)
             st1 == run(st, ev, slackpkg_upgrade_effect(st.fs, SetToSeqNames(Names)),
                        o[1], 1 = o[1].rc)
         IN  [raised |-> "",
              st |-> IF 1 = o[1].rc
                     THEN [st1 EXCEPT !.errors = Append(@, Stderr(ev))]
                     ELSE st1]
    ELSE LET to_upgrade == SelectSeq(a.params, LAMBDA p : p \in DOMAIN old)
             ev == Event("upgrade", to_upgrade, o[1].rc)
         IN  IF to_upgrade # <<>>
             THEN [raised |-> "",
                   st |-> run(st, ev, slackpkg_upgrade_effect(st.fs, to_upgrade),
                              o[1], 1 = o[1].rc)]
             ELSE [raised |-> "UnboundLocalError", st |-> st]

\* upgrade; a.targeted says that name, pkgs or sources was given, otherwise the
\* whole system is upgraded (pkg_params = "all system")
upgrade(a, ctx, dir, ro, o) ==
    IF a.targeted /\ Len(a.params) = 0
    THEN Result(dir, ctx, <<>>, Return(DictOfChanges(<<>>)))
    ELSE
    LET r == maybe_refresh(a.refresh, ro)
    IN  IF r.raised # ""
        THEN Result(dir, ctx, r.trace, Raise(r.raised, r.ret, r.errors))
        ELSE
        LET old == list_pkgs(FALSE, ctx, dir)
            st0 == Start(dir, Append(r.trace, Scan))
        IN  IF old.raised # ""
            THEN Result(dir, old.ctx, st0.trace, Raise(old.raised, PyNone, <<>>))
            ELSE IF a.pkg_type = "file"
            THEN changes_or_raise(old, upgrade_files(a.params, 1, old.ret, st0, o))
            ELSE IF a.pkg_type = "repository"
            THEN LET u == upgrade_repository(a, old.ret, st0, o)
                 IN  IF u.raised # ""
                     THEN Result(u.st.fs, old.ctx, u.st.trace, Raise(u.raised, PyNone, <<>>))
                     ELSE changes_or_raise(old, u.st)
            ELSE changes_or_raise(old, [st0 EXCEPT !.errors = <<Unsupported(a.pkg_type)>>])

----------------------------------------------------------------------------
(* remove *)

\* the loop over the package names; a name that is not installed (the None of
\* a call without name is one) is skipped
RECURSIVE remove_packages(_, _, _, _, _)
remove_packages(packages, i, old, st, o) ==
    IF i > Len(packages) THEN st
    ELSE LET package == packages[i]
         IN  IF package \notin DOMAIN old
             THEN remove_packages(packages, i + 1, old, st, o)
             ELSE LET resp == o[st.k + 1]
                      ev   == Event("removepkg", <<package>>, resp.rc)
                  IN  remove_packages(packages, i + 1, old,
                                      run(st, ev, removepkg_effect(st.fs, package),
                                          resp, 0 # resp.rc),
                                      o)

remove(a, ctx, dir, o) ==
    LET old == list_pkgs(FALSE, ctx, dir)
        st0 == Start(dir, <<Scan>>)
    IN  IF old.raised # ""
        THEN Result(dir, old.ctx, st0.trace, Raise(old.raised, PyNone, <<>>))
        ELSE changes_or_raise(old, remove_packages(a.params, 1, old.ret, st0, o))

----------------------------------------------------------------------------
(* list_upgrades *)

\* re.compile(r'(.*)\.t.z$').match(line): group 1, when the line matches
pkgregex_match(line) ==
    LET n == Len(line)
    IN  IF /\ n >= 4
           /\ line[n - 3] = "."
           /\ line[n - 2] = "t"
           /\ line[n - 1] # "\n"
           /\ line[n] = "z"
        THEN [matched |-> TRUE, group1 |-> SubSeq(line, 1, n - 4)]
        ELSE [matched |-> FALSE, group1 |-> <<>>]

\* upgrades[key] = value
setitem(d, key, value) == [k \in DOMAIN d \cup {key} |-> IF k = key THEN value ELSE d[k]]

\* the loop over the output lines, from line i on
RECURSIVE parse_upgrades(_, _, _)
parse_upgrades(lines, i, upgrades) ==
    IF i > Len(lines) THEN [raised |-> "", ret |-> upgrades]
    ELSE LET pkgname == pkgregex_match(lines[i])
             package == _pkginfo(pkgname.group1)
         IN  IF ~pkgname.matched THEN parse_upgrades(lines, i + 1, upgrades)
             ELSE IF package.raised # "" THEN [raised |-> package.raised, ret |-> <<>>]
             ELSE parse_upgrades(lines, i + 1,
                                 setitem(upgrades, package.name,
                                         pkg_version(package.version, package.build)))

\* list_upgrades; lines is the output of `slackpkg -default_answer=n upgrade-all`
list_upgrades(a, ctx, dir, ro, lines) ==
    LET r == maybe_refresh(a.refresh, ro)
    IN  IF r.raised # ""
        THEN Result(dir, ctx, r.trace, Raise(r.raised, r.ret, r.errors))
        ELSE LET tr == Append(r.trace, Event("upgrade-all -default_answer=n", <<>>, 0))
                 u  == parse_upgrades(lines, 1, <<>>)
             IN  Result(dir, ctx, tr,
                        IF u.raised # "" THEN Raise(u.raised, PyNone, <<>>)
                        ELSE Return(DictOfStr(u.ret)))

----------------------------------------------------------------------------
(* latest_version, upgrade_available *)

\* sub in line
contains(line, sub) ==
    \E i \in 1..(Len(line) - Len(sub) + 1) : SubSeq(line, i, i + Len(sub) - 1) = sub

\* the loop over the lines of the package list, from line i on
RECURSIVE scan_pkglist(_, _, _, _, _)
scan_pkglist(lines, i, packages, localpkgs, ret) ==
    IF i > Len(lines) THEN [raised |-> "", ret |-> ret]
    ELSE IF ~\E j \in DOMAIN packages :
                contains(lines[i], <<" ">> \o packages[j] \o <<" ">>)
    THEN scan_pkglist(lines, i + 1, packages, localpkgs, ret)
    ELSE LET fields == split(lines[i], " ", Len(lines[i]))
         IN  IF Len(fields) # 8 THEN [raised |-> "ValueError", ret |-> ret]
             ELSE LET pkgname    == fields[2]
                      pkgversion == pkg_version(fields[3], fields[5])
                  IN  IF pkgname \notin DOMAIN localpkgs
                      THEN [raised |-> "KeyError", ret |-> ret]
                      ELSE scan_pkglist(lines, i + 1, packages, localpkgs,
                               setitem(ret, pkgname,
                                       IF localpkgs[pkgname] = pkgversion
                                       THEN <<>> ELSE pkgversion))

\* latest_version(*packages, refresh=a.refresh)
latest_version(a, ctx, dir, lines, ro) ==
    IF Len(a.params) = 0 THEN Result(dir, ctx, <<>>, Return(PyStr(<<>>)))
    ELSE
    LET r == maybe_refresh(a.refresh, ro)
    IN  IF r.raised # ""
        THEN Result(dir, ctx, r.trace, Raise(r.raised, r.ret, r.errors))
        ELSE
        LET localpkgs == list_pkgs(FALSE, ctx, dir)
            tr        == Append(r.trace, Scan)
        IN  IF localpkgs.raised # ""
            THEN Result(dir, localpkgs.ctx, tr, Raise(localpkgs.raised, PyNone, <<>>))
            ELSE
            LET found == scan_pkglist(lines, 1, a.params, localpkgs.ret, <<>>)
            IN  Result(dir, localpkgs.ctx, tr,
                    IF found.raised # "" THEN Raise(found.raised, PyNone, <<>>)
                    ELSE IF Len(a.params) = 1
                    THEN IF a.params[1] \in DOMAIN found.ret
                         THEN Return(PyStr(found.ret[a.params[1]]))
                         ELSE Raise("KeyError", PyNone, <<>>)
                    ELSE Return(DictOfStr(found.ret)))

\* upgrade_available(name): latest_version(name) != ""
upgrade_available(a, ctx, dir, lines, ro) ==
    LET r == latest_version([a EXCEPT !.refresh = TRUE], ctx, dir, lines, ro)
    IN  IF r.outcome.kind = "return"
        THEN [r EXCEPT !.outcome = Return(PyBool(r.outcome.value # PyStr(<<>>)))]
        ELSE r

----------------------------------------------------------------------------
(* The state machine: a request is answered in one step, then handed back *)

\* names a caller may ask about: the packages, and one the repository lacks
QueryNames == Names \cup {<<"c">>}

\* what `slackpkg upgrade-all` may print: a package file per line of the
\* package list, and a line of progress text
Banner == <<"c", " ", "c">>
StdoutLines(lines) ==
    {split(lines[i], " ", Len(lines[i]))[6] \o Ext : i \in DOMAIN lines} \cup {Banner}

Respond(a, r) ==
    /\ pc' = "done"
    /\ call' = a
    /\ fsBefore' = fs
    /\ fs' = r.fs
    /\ context' = r.ctx
    /\ trace' = r.trace
    /\ outcome' = r.outcome
    /\ UNCHANGED pkglist

ListPkgsCall ==
    /\ pc = "idle"
    /\ \E val \in BOOLEAN :
           LET a == [NoCall EXCEPT !.op = "list_pkgs", !.versions_as_list = val]
               l == list_pkgs(val, context, fs)
           IN  Respond(a, Result(fs, l.ctx, <<Scan>>,
                                 IF l.raised # "" THEN Raise(l.raised, PyNone, <<>>)
                                 ELSE Return(IF val THEN DictOfList(l.ret)
                                             ELSE DictOfStr(l.ret))))

RefreshDbCall ==
    /\ pc = "idle"
    /\ \E ro \in RefreshOracles :
           LET r == refresh_db(ro)
           IN  Respond([NoCall EXCEPT !.op = "refresh_db"],
                       Result(fs, context, r.trace,
                              IF r.raised # "" THEN Raise(r.raised, r.ret, r.errors)
                              ELSE Return(r.ret)))

\* the exit codes drawn for the refresh of a request
Refreshes(refresh) == IF refresh THEN RefreshOracles ELSE {<<0, 0>>}

LatestVersionCall ==
    /\ pc = "idle"
    /\ \E packages \in SeqsUpTo(QueryNames, MaxParams), refresh \in BOOLEAN :
       \E ro \in Refreshes(refresh) :
           LET a == [NoCall EXCEPT !.op = "latest_version", !.params = packages,
                                   !.refresh = refresh]
           IN  Respond(a, latest_version(a, context, fs, readlines(pkglist), ro))

UpgradeAvailableCall ==
    /\ pc = "idle"
    /\ \E name \in QueryNames, ro \in RefreshOracles :
           LET a == [NoCall EXCEPT !.op = "upgrade_available", !.params = <<name>>,
                                   !.refresh = TRUE]
           IN  Respond(a, upgrade_available(a, context, fs, readlines(pkglist), ro))

\* what parse_targets may hand to install and upgrade: package files, the
\* distinct keys of a name -> version mapping, or targets of another kind
Targets(pkg_type) ==
    IF pkg_type = "file"
    THEN {q \in SeqsUpTo(FileUniverse, MaxParams) : NoDuplicates(q)}
    ELSE IF pkg_type = "repository"
    THEN {q \in SeqsUpTo(QueryNames, MaxParams) : NoDuplicates(q)}
    ELSE {<<<<"a">>>>}

\* the answers drawn for the commands of a request: one per package file, or
\* one per slackpkg command (install and reinstall)
Oracles(pkg_type) ==
    IF pkg_type = "file" THEN [1..MaxParams -> ToolResponses]
    ELSE IF pkg_type = "repository" THEN [1..2 -> SlackpkgResponses]
    ELSE {<<>>}

InstallCall ==
    /\ pc = "idle"
    /\ \E pkg_type \in {"file", "repository", "advisory"}, refresh, reinstall \in BOOLEAN :
       \E params \in Targets(pkg_type), ro \in Refreshes(refresh), o \in Oracles(pkg_type) :
           LET a == [NoCall EXCEPT !.op = "install", !.params = params,
                                   !.pkg_type = pkg_type, !.refresh = refresh,
                                   !.reinstall = reinstall, !.targeted = TRUE]
           IN  Respond(a, install(a, context, fs, ro, o))

UpgradeCall ==
    /\ pc = "idle"
    /\ \/ \E pkg_type \in {"file", "repository", "advisory"}, refresh \in BOOLEAN :
          \E params \in Targets(pkg_type), ro \in Refreshes(refresh), o \in Oracles(pkg_type) :
              LET a == [NoCall EXCEPT !.op = "upgrade", !.params = params,
                                      !.pkg_type = pkg_type, !.refresh = refresh,
                                      !.targeted = TRUE]
              IN  Respond(a, upgrade(a, context, fs, ro, o))
       \/ \E refresh \in BOOLEAN :
          \E ro \in Refreshes(refresh), o \in Oracles("repository") :
              LET a == [NoCall EXCEPT !.op = "upgrade", !.pkg_type = "repository",
                                      !.refresh = refresh]
              IN  Respond(a, upgrade(a, context, fs, ro, o))

\* remove(name) or remove(pkgs=...); the empty list stands for a call without
\* name, whose single target None is never installed
RemoveCall ==
    /\ pc = "idle"
    /\ \E packages \in SeqsUpTo(QueryNames, MaxParams), o \in [1..MaxParams -> ToolResponses] :
           LET a == [NoCall EXCEPT !.op = "remove", !.params = packages]
           IN  Respond(a, remove(a, context, fs, o))

ListUpgradesCall ==
    /\ pc = "idle"
    /\ \E refresh \in BOOLEAN :
       \E ro \in Refreshes(refresh),
          lines \in SeqsUpTo(StdoutLines(readlines(pkglist)), MaxParams) :
           LET a == [NoCall EXCEPT !.op = "list_upgrades", !.params = lines,
                                   !.refresh = refresh]
           IN  Respond(a, list_upgrades(a, context, fs, ro, lines))

\* the helper _pkginfo applied to a marker of the directory
PkginfoCall ==
    /\ pc = "idle"
    /\ \E m \in fs :
           LET a == [NoCall EXCEPT !.op = "_pkginfo", !.params = <<m>>]
               r == _pkginfo(m)
           IN  Respond(a, Result(fs, context, <<>>,
                                 IF r.raised # "" THEN Raise(r.raised, PyNone, <<>>)
                                 ELSE Return(PyTuple(<<r.name, r.version, r.arch, r.build>>))))

\* the caller takes the response
ReturnToCaller ==
    /\ pc = "done"
    /\ pc' = "idle"
    /\ call' = NoCall
    /\ trace' = <<>>
    /\ outcome' = NoOutcome
    /\ fsBefore' = fs
    /\ UNCHANGED <<fs, context, pkglist>>

\* the module is loaded: nothing cached, no request in progress
Loaded ==
    /\ context = NoContext
    /\ pc = "idle"
    /\ call = NoCall
    /\ trace = <<>>
    /\ outcome = NoOutcome
    /\ fsBefore = fs

\* a machine without packages yet; the repository offers every package
Init ==
    /\ fs = {}
    /\ pkglist = RepoComps
    /\ Loaded

Next ==
    \/ ListPkgsCall
    \/ RefreshDbCall
    \/ LatestVersionCall
    \/ UpgradeAvailableCall
    \/ InstallCall
    \/ UpgradeCall
    \/ RemoveCall
    \/ ListUpgradesCall
    \/ ReturnToCaller

Spec == Init /\ [][Next]_vars

\* the parsing specification: the directory holds any one or two markers whose
\* names are drawn from NamesUpTo(MaxNameLen), and the package list names them
ParseMarkers == {Marker(c) : c \in ParseComps}

InitParse ==
    /\ \E m1, m2 \in ParseMarkers : fs = {m1, m2}
    /\ pkglist = {d \in ParseComps : Marker(d) \in fs}
    /\ Loaded

NextParse ==
    \/ PkginfoCall
    \/ ListPkgsCall
    \/ ListUpgradesCall
    \/ ReturnToCaller

SpecParse == InitParse /\ [][NextParse]_vars

----------------------------------------------------------------------------
(* What the directory holds, stated from the packages and not from the     *)
(* parsing code                                                            *)

VersionBuild(c) == c.version \o Dash \o c.build

\* the version-build strings of the markers in dir of the package called n
VersionsOf(dir, n) == {VersionBuild(c) : c \in {d \in CompsOf(dir) : d.name = n}}

\* InstalledSet: name -> the version strings in order, joined with commas
InstalledSet(dir) ==
    [n \in {c.name : c \in CompsOf(dir)} |-> join(<<",">>, sorted(VersionsOf(dir, n)))]

Entry(pkgs, n) == IF n \in DOMAIN pkgs THEN pkgs[n] ELSE <<>>

Done(op) == pc = "done" /\ call.op = op

\* the request took a listing of the directory
Listed == \E i \in DOMAIN trace : trace[i].cmd = "list_pkgs"

\* a command failed: a package tool by a non-zero exit code, slackpkg by 1
Failed(e) ==
    IF e.cmd \in {"installpkg", "upgradepkg", "removepkg"} THEN e.rc # 0
    ELSE e.cmd # "list_pkgs" /\ e.rc = 1

----------------------------------------------------------------------------
(* C1 *)

\* C1: refresh_db returns True when check-updates exits with 100, False when
\* it exits with 1 and None for any other exit code.
C1_RefreshDbReturnsByExitCode ==
    Done("refresh_db") =>
        /\ outcome.kind = "return"
        /\ outcome.value = IF trace[1].rc = 100 THEN PyBool(TRUE)
                           ELSE IF trace[1].rc = 1 THEN PyBool(FALSE)
                           ELSE PyNone

----------------------------------------------------------------------------
(* C2 *)

\* C2: list_pkgs with default arguments returns the mapping derived from the
\* marker files present at the time of the call, whatever was installed,
\* upgraded, removed or listed before, and nothing is remembered in __context__.
C2_ListPkgsReadsDirectory ==
    /\ ~context.present
    /\ (Done("list_pkgs") /\ ~call.versions_as_list) =>
           /\ outcome.kind = "return"
           /\ outcome.value = DictOfStr(InstalledSet(fs))

\* a default listing of a directory that earlier requests have filled
C2_Witness ==
    /\ Done("list_pkgs")
    /\ ~call.versions_as_list
    /\ Cardinality(fs) >= 2

----------------------------------------------------------------------------
(* C3 *)

\* the change set of the response
Changes == IF outcome.kind = "return" THEN outcome.value[2] ELSE outcome.changes[2]

\* C3: the change set returned by install, upgrade and remove, or attached to
\* the CommandExecutionError they raise after the commands, holds exactly the
\* names whose entry differs between the directory before and after, each with
\* its before/after pair.
C3_ChangesAreTheDifference ==
    (/\ pc = "done"
     /\ call.op \in {"install", "upgrade", "remove"}
     /\ \/ outcome.kind = "return"
        \/ outcome.kind = "CommandExecutionError" /\ Listed) =>
        LET before == InstalledSet(fsBefore)
            after  == InstalledSet(fs)
        IN  /\ DOMAIN Changes =
                   {n \in DOMAIN before \cup DOMAIN after : Entry(before, n) # Entry(after, n)}
            /\ \A n \in DOMAIN Changes :
                   Changes[n] = [old |-> Entry(before, n), new |-> Entry(after, n)]

\* an upgrade that failed and still changed the version of an installed
\* package, next to a package it left alone
C3_Witness ==
    /\ Done("upgrade")
    /\ outcome.kind = "CommandExecutionError"
    /\ Listed
    /\ \E n \in DOMAIN Changes : Changes[n].old # <<>> /\ Changes[n].new # <<>>
    /\ \E n \in DOMAIN InstalledSet(fs) : n \notin DOMAIN Changes

----------------------------------------------------------------------------
(* C4 *)

\* the latest version of package n in the repository, "" when it is installed
LatestAvailable(n) ==
    LET c == CHOOSE d \in RepoComps : d.name = n
    IN  IF Marker(c) \in fs THEN <<>> ELSE VersionBuild(c)

\* C4: latest_version answers for every requested package of the repository,
\* installed or not, with its latest version or "" when that is installed: a
\* string for one name, a mapping for several; upgrade_available(name) is
\* true exactly when the string is not empty.
C4_LatestVersionForEveryName ==
    /\ (/\ Done("latest_version")
        /\ ~call.refresh
        /\ call.params # <<>>
        /\ Range(call.params) \subseteq Names) =>
           /\ outcome.kind = "return"
           /\ IF Len(call.params) = 1
              THEN outcome.value = PyStr(LatestAvailable(call.params[1]))
              ELSE /\ outcome.value[1] = "dict of str"
                   /\ \A n \in Range(call.params) :
                          /\ n \in DOMAIN outcome.value[2]
                          /\ outcome.value[2][n] = LatestAvailable(n)
    /\ (/\ Done("upgrade_available")
        /\ call.params[1] \in Names
        /\ outcome.kind # "CommandExecutionError") =>
           /\ outcome.kind = "return"
           /\ outcome.value = PyBool(LatestAvailable(call.params[1]) # <<>>)

----------------------------------------------------------------------------
(* C5 *)

RECURSIVE CountFailed(_, _)
CountFailed(tr, i) ==
    IF i > Len(tr) THEN 0
    ELSE (IF Failed(tr[i]) THEN 1 ELSE 0) + CountFailed(tr, i + 1)

\* C5: the errors of refresh_db, install, upgrade and remove hold one entry
\* per failed command, plus one for an unsupported package type.
C5_OneErrorPerFailedCommand ==
    (/\ pc = "done"
     /\ call.op \in {"refresh_db", "install", "upgrade", "remove"}
     /\ outcome.kind \in {"return", "CommandExecutionError"}) =>
        Len(outcome.errors) =
            CountFailed(trace, 1)
            + (IF Listed /\ call.op \in {"install", "upgrade"}
                  /\ call.pkg_type \notin {"file", "repository"}
               THEN 1 ELSE 0)

----------------------------------------------------------------------------
(* C6 *)

Positions(cmd) == {i \in DOMAIN trace : trace[i].cmd = cmd}

\* the commands of the refresh, as the trace of a request must show them
RefreshFirst ==
    IF call.refresh /\ trace # <<>>
    THEN /\ Positions("check-updates") = {1}
         /\ Positions("update") = IF trace[1].rc = 100 THEN {2} ELSE {}
    ELSE Positions("check-updates") = {} /\ Positions("update") = {}

\* C6: with refresh, list_upgrades runs check-updates, then update only after
\* an exit code of 100, and the listing command after them; without refresh
\* it runs the listing command alone.  install and upgrade refresh in the same
\* way before their first listing of the directory, and only when refresh is set.
C6_RefreshPrecedesListing ==
    /\ Done("list_upgrades") =>
           /\ RefreshFirst
           /\ trace # <<>>
           /\ \A i \in Positions("upgrade-all -default_answer=n") :
                  /\ i = Len(trace)
                  /\ i = Cardinality(Positions("check-updates") \cup Positions("update")) + 1
           /\ ~call.refresh => Positions("upgrade-all -default_answer=n") = {1}
    /\ (pc = "done" /\ call.op \in {"install", "upgrade"}) =>
           /\ RefreshFirst
           /\ \A i \in Positions("list_pkgs") :
                  \A j \in Positions("check-updates") \cup Positions("update") : j < i

\* list_upgrades with refresh whose check-updates found updates
C6_Witness ==
    /\ Done("list_upgrades")
    /\ call.refresh
    /\ Len(trace) = 3
    /\ trace[1].rc = 100
    /\ trace[3].cmd = "upgrade-all -default_answer=n"

----------------------------------------------------------------------------
(* C7 *)

\* the mapping of the response
Reported == outcome.value[2]

\* the package whose marker is m
PackageOf(m) == CHOOSE c \in AllComps : Marker(c) = m

\* the packages named by the lines of the output of upgrade-all
LinePackages(lines) ==
    {i \in DOMAIN lines : \E c \in AllComps : lines[i] = Marker(c) \o Ext}

LinePackage(line) == CHOOSE c \in AllComps : line = Marker(c) \o Ext

\* _pkginfo returns the four fields the marker was built from
PkginfoRight ==
    Done("_pkginfo") =>
        /\ outcome.kind = "return"
        /\ LET c == PackageOf(call.params[1])
           IN  outcome.value = PyTuple(<<c.name, c.version, c.arch, c.build>>)

\* C7: _pkginfo(name-version-arch-build) returns (name, version, arch, build)
\* for names with dashes too, and list_pkgs and list_upgrades report every
\* package under its name with the version string version-build.
C7_ReportedAsVersionBuild ==
    /\ PkginfoRight
    /\ (Done("list_pkgs") /\ ~call.versions_as_list) =>
           /\ outcome.kind = "return"
           /\ \A c \in CompsOf(fs) :
                  /\ c.name \in DOMAIN Reported
                  /\ Reported[c.name] = VersionBuild(c)
    /\ Done("list_upgrades") =>
           /\ outcome.kind \in {"return", "CommandExecutionError"}
           /\ outcome.kind = "return" =>
                  \A i \in LinePackages(call.params) :
                      LET c == LinePackage(call.params[i])
                      IN  /\ c.name \in DOMAIN Reported
                          /\ Reported[c.name] = VersionBuild(c)

\* C7 (amended): _pkginfo(name-version-arch-build) returns (name, version,
\* arch, build) for names with dashes too; list_pkgs reports every package
\* under its name with the sorted version-build strings of all markers of that
\* name joined by commas (version-build itself when there is one marker), and
\* list_upgrades reports under each name the version-build of the last output
\* line of that name.
C7_ReportedPerName ==
    /\ PkginfoRight
    /\ (Done("list_pkgs") /\ ~call.versions_as_list) =>
           /\ outcome.kind = "return"
           /\ DOMAIN Reported = {c.name : c \in CompsOf(fs)}
           /\ \A c \in CompsOf(fs) :
                  /\ Reported[c.name] = join(<<",">>, sorted(VersionsOf(fs, c.name)))
                  /\ VersionsOf(fs, c.name) = {VersionBuild(c)} =>
                         Reported[c.name] = VersionBuild(c)
    /\ Done("list_upgrades") =>
           /\ outcome.kind \in {"return", "CommandExecutionError"}
           /\ outcome.kind = "return" =>
                  /\ DOMAIN Reported =
                         {LinePackage(call.params[i]).name : i \in LinePackages(call.params)}
                  /\ \A i \in LinePackages(call.params) :
                         LET c == LinePackage(call.params[i])
                         IN  (\A j \in LinePackages(call.params) :
                                  j > i => LinePackage(call.params[j]).name # c.name)
                             => Reported[c.name] = VersionBuild(c)

\* a listing of two markers of one package whose name holds a dash
C7_Witness ==
    /\ Done("list_pkgs")
    /\ ~call.versions_as_list
    /\ \E c \in CompsOf(fs) :
           /\ "-" \in Range(c.name)
           /\ Cardinality(VersionsOf(fs, c.name)) = 2
           /\ Reported[c.name] # VersionBuild(c)

====
